---- MODULE Spec2Model ----
(***************************************************************************)
(* Model of the signal engine of sabelorobot.py: one invocation of         *)
(* generate_signal, from the two candle fetches through the indicator      *)
(* calculation, the live-price fetch and the confluence vote to the        *)
(* returned decision.                                                      *)
(*                                                                         *)
(* Representation.                                                         *)
(*   - A candle list is represented by its length; what TA-Lib makes of    *)
(*     its contents is an input chosen when the indicators are computed.   *)
(*   - Optional numbers are tagged records: Num(v), NaN, None.             *)
(*   - Prices and indicator values are integers (ticks).  The returned     *)
(*     levels are kept in hundredths of a tick, so that the multipliers    *)
(*     0.8 and 0.8 * 1.5 are exact: ATR_SL_MULTIPLIER and                  *)
(*     RISK_REWARD_RATIO are in tenths, ATR_TP_MULTIPLIER (their product)  *)
(*     in hundredths.  Arithmetic is exact, not IEEE-754.                  *)
(***************************************************************************)
EXTENDS Integers, Sequences, FiniteSets

VARIABLES
    priceFeed,        \* what the provider answers to a price request: Num(p) or None
    pc,               \* position of the invocation inside generate_signal
    candles_15m,      \* number of candles fetched for "15min" (None before the fetch)
    candles_1h,       \* number of candles fetched for "1h"
    indicators_15m,   \* snapshot record, or None
    indicators_1h,
    current_price,    \* Num(p) or None
    bullish_signals,  \* Num(n), None before the scoring step
    bearish_signals,
    confidence,       \* [num, den]: the fraction num/den, None before the scoring step
    result,           \* the returned tuple, None while running
    calcCalls,        \* calls of calculate_indicators made by this invocation
    priceRequests,    \* calls of fetch_current_price made by this invocation
    reads,            \* what each network read of this invocation met
    log_records,      \* records this invocation passed to logger.error
    previous,         \* an evaluation made before this one: its inputs and result
    arr,              \* the series handed to last_valid_value
    last_valid,       \* what last_valid_value returned for it
    inv,              \* the locals of the concurrent invocations, per thread
    quote,            \* the price the provider served last
    sched,            \* check_for_signals: its position and the London hour
    polling,          \* bot.infinity_polling: "running" or "stopped"
    alert,            \* check_for_signals: its walk over the users it alerts
    now,              \* the clock
    ACCESS_CODES,     \* code -> expiry
    AUTHORIZED_USERS, \* user id -> [added_date, is_admin, granted]
    ADMIN_USER_ID,    \* None until the first admin command
    workers,          \* the handler each worker thread of the bot is running
    uses,             \* code -> the users authorized with it since it was generated
    reply,            \* what the bot answered to the request it handled last
    user_states       \* user id -> the input the bot awaits from the user

vars == <<priceFeed, pc, candles_15m, candles_1h, indicators_15m, indicators_1h,
          current_price, bullish_signals, bearish_signals, confidence, result,
          calcCalls, priceRequests, reads, log_records, previous, arr, last_valid,
          inv, quote, sched, polling, alert, now, ACCESS_CODES, AUTHORIZED_USERS,
          ADMIN_USER_ID, workers, uses, reply, user_states>>

\* The locals of one invocation of generate_signal and the provider's price.
engine == <<priceFeed, pc, candles_15m, candles_1h, indicators_15m, indicators_1h,
            current_price, bullish_signals, bearish_signals, confidence, result,
            calcCalls, priceRequests, reads, log_records>>

lvvVars == <<arr, last_valid>>
concVars == <<inv, quote>>
schedVars == <<sched, polling, alert>>
botVars == <<now, ACCESS_CODES, AUTHORIZED_USERS, ADMIN_USER_ID, workers, uses,
             reply, user_states>>

\* The variables outside one invocation of generate_signal.
outside == <<previous, lvvVars, concVars, schedVars, botVars>>

----------------------------------------------------------------------------
(* Optional values *)

None == [tag |-> "none"]
NaN == [tag |-> "nan"]
Num(v) == [tag |-> "num", v |-> v]

----------------------------------------------------------------------------
(* Config *)

RISK_REWARD_RATIO == 15      \* 1.5, in tenths
ATR_PERIOD == 10
ATR_SL_MULTIPLIER == 8       \* 0.8, in tenths
ATR_TP_MULTIPLIER == ATR_SL_MULTIPLIER * RISK_REWARD_RATIO   \* in hundredths
EMA_FAST == 12
EMA_SLOW == 26
RSI_PERIOD == 14
RSI_OVERBOUGHT == 70
RSI_OVERSOLD == 30
MACD_SLOW == 26
MACD_SIGNAL == 9
BB_PERIOD == 20

MinCandles == 50             \* calculate_indicators' length guard
ConfidenceThreshold == 30    \* the literal of the decision rule

\* A price in hundredths of a tick, the unit of the returned levels.
Fix(p) == p * 100

----------------------------------------------------------------------------
(* Bounds of the model *)

MaxCandles == 50             \* a fetch returns 0..MaxCandles candles
MaxAtr == 2                  \* the fast ATR ranges over 0..MaxAtr
MaxPrice == 5                \* the live price ranges over 1..MaxPrice
MaxSeries == 4               \* last_valid_value is applied to series of 0..MaxSeries entries
MaxUsers == 2                \* the Telegram user ids are 1..MaxUsers
MaxCodes == 1                \* the access codes drawn are 1..MaxCodes
MaxTime == 1                 \* the clock is read around 0..MaxTime periods of 30 days

----------------------------------------------------------------------------
(* TA-Lib output: a series of the candle list's length whose first         *)
(* `lookback` entries are NaN (warm-up) and whose later entries hold the   *)
(* value x; x = NaN gives a series with no defined entry.                  *)

Series(n, lookback, x) == [i \in 1..n |-> IF i <= lookback THEN NaN ELSE x]

Fields == {"ema_fast", "ema_slow", "rsi", "macd", "macd_signal", "macd_hist",
           "atr", "upper_bb", "middle_bb", "lower_bb"}

\* The series computed from n candles whose indicators settle at the values of v.
TalibSeries(n, v) ==
    [ema_fast    |-> Series(n, EMA_FAST - 1, v.ema_fast),
     ema_slow    |-> Series(n, EMA_SLOW - 1, v.ema_slow),
     rsi         |-> Series(n, RSI_PERIOD, v.rsi),
     macd        |-> Series(n, MACD_SLOW + MACD_SIGNAL - 2, v.macd),
     macd_signal |-> Series(n, MACD_SLOW + MACD_SIGNAL - 2, v.macd_signal),
     macd_hist   |-> Series(n, MACD_SLOW + MACD_SIGNAL - 2, v.macd_hist),
     atr         |-> Series(n, ATR_PERIOD, v.atr),
     upper_bb    |-> Series(n, BB_PERIOD - 1, v.upper_bb),
     middle_bb   |-> Series(n, BB_PERIOD - 1, v.middle_bb),
     lower_bb    |-> Series(n, BB_PERIOD - 1, v.lower_bb),
     closes      |-> Series(n, 0, v.price)]

\* Settled values of the fast timeframe.  The histogram is macd - signal, the
\* bands are middle -/+ a width, as TA-Lib computes them.
Values15m ==
    {[ema_fast |-> Num(ef), ema_slow |-> Num(2), rsi |-> Num(r),
      macd |-> Num(m), macd_signal |-> Num(1), macd_hist |-> Num(m - 1),
      atr |-> Num(a), upper_bb |-> Num(4), middle_bb |-> Num(3),
      lower_bb |-> Num(2), price |-> Num(3)] :
        ef \in 1..3,
        r \in {RSI_OVERSOLD - 1, RSI_OVERSOLD, RSI_OVERBOUGHT, RSI_OVERBOUGHT + 1},
        m \in 0..2,
        a \in 0..MaxAtr}

\* Settled values of the slow timeframe: its ATR differs from every fast ATR
\* and its bands are degenerate at the middle of the fast bands.
Values1h ==
    {[ema_fast |-> Num(ef), ema_slow |-> Num(2), rsi |-> Num(r),
      macd |-> Num(m), macd_signal |-> Num(1), macd_hist |-> Num(m - 1),
      atr |-> Num(MaxAtr + 1), upper_bb |-> Num(3), middle_bb |-> Num(3),
      lower_bb |-> Num(3), price |-> Num(3)] :
        ef \in 1..3,
        r \in {RSI_OVERSOLD - 1, RSI_OVERSOLD, RSI_OVERBOUGHT, RSI_OVERBOUGHT + 1},
        m \in 0..2}

\* One settled record in which a single indicator never becomes defined.
Undefined(vs) ==
    LET base == CHOOSE v \in vs : v.ema_fast.v > v.ema_slow.v /\ v.macd_hist.v > 0
    IN  {[base EXCEPT ![f] = NaN] : f \in Fields}

\* The contents explored for a list of n candles: every settled record for the
\* lists around the length guard and above, one record for the shorter lists.
Contents(n, vs) ==
    IF n >= MinCandles - 1 THEN vs \cup Undefined(vs)
    ELSE {CHOOSE v \in vs : v.ema_fast.v > v.ema_slow.v /\ v.macd_hist.v > 0}

TalibOutputs15m(n) == {TalibSeries(n, v) : v \in Contents(n, Values15m)}
TalibOutputs1h(n) == {TalibSeries(n, v) : v \in Contents(n, Values1h)}

----------------------------------------------------------------------------
(* calculate_indicators *)

RECURSIVE ScanBack(_, _)
ScanBack(a, i) ==
    IF i < 1 THEN None
    ELSE IF a[i] # NaN THEN a[i]
    ELSE ScanBack(a, i - 1)

\* Mutant: only the last entry is looked at.
last_valid_value_Last(a) ==
    IF Len(a) = 0 THEN None
    ELSE IF a[Len(a)] # NaN THEN a[Len(a)]
    ELSE None

last_valid_value(a) ==
    IF Len(a) = 0 THEN None ELSE ScanBack(a, Len(a))

\* Mutant: the length guard written with <=.
calculate_indicators_Leq(candles, out) ==
    IF candles <= MinCandles THEN None
    ELSE [ema_fast    |-> last_valid_value(out.ema_fast),
          ema_slow    |-> last_valid_value(out.ema_slow),
          rsi         |-> last_valid_value(out.rsi),
          macd        |-> last_valid_value(out.macd),
          macd_signal |-> last_valid_value(out.macd_signal),
          macd_hist   |-> last_valid_value(out.macd_hist),
          atr         |-> last_valid_value(out.atr),
          upper_bb    |-> last_valid_value(out.upper_bb),
          middle_bb   |-> last_valid_value(out.middle_bb),
          lower_bb    |-> last_valid_value(out.lower_bb),
          price       |-> IF Len(out.closes) > 0 THEN out.closes[Len(out.closes)]
                          ELSE None]

\* candles: the number of candles; out: what TA-Lib computes from them.
calculate_indicators(candles, out) ==
    IF candles < MinCandles THEN None
    ELSE [ema_fast    |-> last_valid_value(out.ema_fast),
          ema_slow    |-> last_valid_value(out.ema_slow),
          rsi         |-> last_valid_value(out.rsi),
          macd        |-> last_valid_value(out.macd),
          macd_signal |-> last_valid_value(out.macd_signal),
          macd_hist   |-> last_valid_value(out.macd_hist),
          atr         |-> last_valid_value(out.atr),
          upper_bb    |-> last_valid_value(out.upper_bb),
          middle_bb   |-> last_valid_value(out.middle_bb),
          lower_bb    |-> last_valid_value(out.lower_bb),
          price       |-> IF Len(out.closes) > 0 THEN out.closes[Len(out.closes)]
                          ELSE None]

----------------------------------------------------------------------------
(* generate_signal: the confluence vote *)

Bull(t, w) == [t EXCEPT !.bull = @ + w]
\* Mutant: a bearish vote is not counted.
Bear_Dropped(t, w) == t

Bear(t, w) == [t EXCEPT !.bear = @ + w]

\* Mutant: equal EMAs counted as bullish.
Trend_Geq(t, ind, w) ==
    IF ind.ema_fast.v >= ind.ema_slow.v THEN Bull(t, w) ELSE Bear(t, w)

\* 1. Trend analysis (EMAs); w is the weight of the timeframe.
Trend(t, ind, w) ==
    IF ind.ema_fast.v > ind.ema_slow.v THEN Bull(t, w) ELSE Bear(t, w)

\* 2. Momentum analysis (RSI)
Momentum(t, ind) ==
    IF ind.rsi.v < RSI_OVERSOLD THEN Bull(t, 1)
    ELSE IF ind.rsi.v > RSI_OVERBOUGHT THEN Bear(t, 1)
    ELSE t

\* 3. MACD analysis
Macd(t, ind) ==
    IF ind.macd_hist.v > 0 /\ ind.macd.v > ind.macd_signal.v THEN Bull(t, 1)
    ELSE IF ind.macd_hist.v < 0 /\ ind.macd.v < ind.macd_signal.v THEN Bear(t, 1)
    ELSE t

\* Mutant: the last close of the snapshot compared with the bands.
PriceAction_LastClose(t, price, ind) ==
    IF ind.price.v < ind.lower_bb.v THEN Bull(t, 1)
    ELSE IF ind.price.v > ind.upper_bb.v THEN Bear(t, 1)
    ELSE t

\* 4. Price action (Bollinger Bands)
PriceAction(t, price, ind) ==
    IF price.v < ind.lower_bb.v THEN Bull(t, 1)
    ELSE IF price.v > ind.upper_bb.v THEN Bear(t, 1)
    ELSE t

\* The statements of lines 217-257, in order.
Tally(i15, i1h, price) ==
    LET t0 == [bull |-> 0, bear |-> 0]
        t1 == Trend(t0, i15, 1)
        t2 == Trend(t1, i1h, 2)
        t3 == Momentum(t2, i15)
        t4 == Momentum(t3, i1h)
        t5 == Macd(t4, i15)
        t6 == Macd(t5, i1h)
    IN  PriceAction(t6, price, i15)

Abs(x) == IF x < 0 THEN -x ELSE x

\* Mutant: the difference of the tallies without abs().
Confidence_NoAbs(bull, bear) ==
    LET total_signals == bull + bear
    IN  IF total_signals = 0 THEN [num |-> 0, den |-> 1]
        ELSE [num |-> (bull - bear) * 100, den |-> total_signals]

\* confidence as the fraction num/den
Confidence(bull, bear) ==
    LET total_signals == bull + bear
    IN  IF total_signals = 0 THEN [num |-> 0, den |-> 1]
        ELSE [num |-> Abs(bull - bear) * 100, den |-> total_signals]

\* Mutant: a threshold of 50.
Confident_Half(c) == c.num > 50 * c.den

\* confidence > 30
Confident(c) == c.num > ConfidenceThreshold * c.den

----------------------------------------------------------------------------
(* generate_signal: the returned tuples (levels in hundredths of a tick) *)

Decision(signal, strategy, price, tp, sl) ==
    [signal |-> signal, strategy |-> strategy, price |-> price, tp |-> tp, sl |-> sl]

\* Mutant: the slow timeframe's ATR.
AtrValue_Slow(i15, i1h) == i1h.atr.v

\* atr_value = indicators_15m['atr']
AtrValue(i15, i1h) == i15.atr.v

\* Mutant: the target placed at the stop distance.
BuyDecision_StopDistance(price, atr_value) ==
    Decision("BUY", "Multi-timeframe BULLISH confluence", Fix(price),
             Fix(price) + atr_value * ATR_SL_MULTIPLIER * 10,
             Fix(price) - atr_value * ATR_SL_MULTIPLIER * 10)

BuyDecision(price, atr_value) ==
    Decision("BUY", "Multi-timeframe BULLISH confluence", Fix(price),
             Fix(price) + atr_value * ATR_TP_MULTIPLIER,
             Fix(price) - atr_value * ATR_SL_MULTIPLIER * 10)

\* Mutant: the BUY levels copied into the SELL branch.
SellDecision_Unmirrored(price, atr_value) ==
    Decision("SELL", "Multi-timeframe BEARISH confluence", Fix(price),
             Fix(price) + atr_value * ATR_TP_MULTIPLIER,
             Fix(price) - atr_value * ATR_SL_MULTIPLIER * 10)

SellDecision(price, atr_value) ==
    Decision("SELL", "Multi-timeframe BEARISH confluence", Fix(price),
             Fix(price) - atr_value * ATR_TP_MULTIPLIER,
             Fix(price) + atr_value * ATR_SL_MULTIPLIER * 10)

\* Mutant: HOLD returned with the levels of the ANALYZING tuple.
HoldDecision_Zero(price) ==
    Decision("HOLD", "Market is consolidating", Fix(price), 0, 0)

HoldDecision(price) ==
    Decision("HOLD", "Market is consolidating", Fix(price), Fix(price), Fix(price))

NoMarketData == Decision("ERROR", "Failed to fetch market data", 0, 0, 0)
NotEnoughData == Decision("ANALYZING", "Not enough data to calculate indicators", 0, 0, 0)
\* Mutant: a failed price fetch reported like missing indicators.
NoCurrentPrice_Analyzing == Decision("ANALYZING", "Failed to fetch current price", 0, 0, 0)
NoCurrentPrice == Decision("ERROR", "Failed to fetch current price", 0, 0, 0)
Calculating(price) == Decision("ANALYZING", "Calculating indicators...", Fix(price), 0, 0)
SystemError == Decision("ERROR", "System error", 0, 0, 0)

\* Mutant: `and` in place of `or`.
NoCandles_Both(c15, c1h) == c15 = 0 /\ c1h = 0

\* not candles_15m or not candles_1h
NoCandles(c15, c1h) == c15 = 0 \/ c1h = 0

\* Mutant: only the fast snapshot is inspected.
MissingIndicator_FastOnly(i15, i1h) == \E f \in DOMAIN i15 : i15[f] = None

\* any(v is None for v in indicators.values()), for both snapshots
MissingIndicator(i15, i1h) ==
    \/ \E f \in DOMAIN i15 : i15[f] = None
    \/ \E f \in DOMAIN i1h : i1h[f] = None

\* A comparison or an arithmetic operation with None, or formatting None with
\* a float format, raises TypeError; `and` and `elif` are evaluated left to right.
MacdRaises(ind) ==
    \/ ind.macd_hist = None
    \/ ind.macd_hist.v # 0 /\ None \in {ind.macd, ind.macd_signal}

VoteRaises(i15, i1h, price) ==
    \/ None \in {i15.ema_fast, i15.ema_slow, i1h.ema_fast, i1h.ema_slow, i15.rsi, i1h.rsi}
    \/ MacdRaises(i15) \/ MacdRaises(i1h)
    \/ i15.lower_bb = None
    \/ price.v >= i15.lower_bb.v /\ i15.upper_bb = None

DecideRaises(i15, i1h, t) ==
    IF t.bull # t.bear /\ Confident(Confidence(t.bull, t.bear))
    THEN i15.atr = None
    ELSE i15.middle_bb = None

\* Mutant: a BUY or SELL that repeats an earlier evaluation's is suppressed.
Decide_NoRepeat(i15, i1h, price, t) ==
    LET c == Confidence(t.bull, t.bear)
        d == IF t.bull > t.bear /\ Confident(c) THEN BuyDecision(price.v, AtrValue(i15, i1h))
             ELSE IF t.bear > t.bull /\ Confident(c)
             THEN SellDecision(price.v, AtrValue(i15, i1h))
             ELSE HoldDecision(price.v)
    IN  IF previous # None /\ d.signal # "HOLD" /\ previous.result.signal = d.signal
        THEN HoldDecision(price.v)
        ELSE d

Decide(i15, i1h, price, t) ==
    LET c == Confidence(t.bull, t.bear)
    IN  IF t.bull > t.bear /\ Confident(c) THEN BuyDecision(price.v, AtrValue(i15, i1h))
        ELSE IF t.bear > t.bull /\ Confident(c) THEN SellDecision(price.v, AtrValue(i15, i1h))
        ELSE HoldDecision(price.v)

----------------------------------------------------------------------------
(* State machine of one invocation *)

PriceFeed == {Num(p) : p \in 1..MaxPrice} \cup {None}

\* What a candle request meets: a well-formed answer, an answer without
\* "values", an item without one of its fields, no answer within the 10 s of
\* timeout=10, any other failure of the request.
CandleResponses == {"ok", "no_values", "bad_item", "timeout", "error"}

\* What a price request meets: an answer with "price", an answer without it,
\* no answer within 10 s, any other failure.
PriceResponses == {"ok", "no_price", "timeout", "error"}

\* No read made yet.
NoReads == [c15 |-> "none", c1h |-> "none", price |-> "none"]

Locals ==
    /\ pc = "fetch_15m"
    /\ candles_15m = None /\ candles_1h = None
    /\ indicators_15m = None /\ indicators_1h = None
    /\ current_price = None
    /\ bullish_signals = None /\ bearish_signals = None /\ confidence = None
    /\ result = None
    /\ calcCalls = 0 /\ priceRequests = 0
    /\ reads = NoReads /\ log_records = 0

\* The parts of the program that a specification leaves out stay as they are.
NoLvv == arr = <<>> /\ last_valid = None
NoConc == inv = None /\ quote = None
NoSched == sched = None /\ polling = None /\ alert = None
NoBot ==
    /\ now = 0 /\ ACCESS_CODES = None /\ AUTHORIZED_USERS = None
    /\ ADMIN_USER_ID = None /\ workers = None /\ uses = None
    /\ reply = None /\ user_states = None

\* No invocation of generate_signal is followed step by step.
NoEngine ==
    /\ priceFeed = None /\ pc = "none"
    /\ candles_15m = None /\ candles_1h = None
    /\ indicators_15m = None /\ indicators_1h = None
    /\ current_price = None
    /\ bullish_signals = None /\ bearish_signals = None /\ confidence = None
    /\ result = None
    /\ calcCalls = 0 /\ priceRequests = 0
    /\ reads = NoReads /\ log_records = 0

\* Nothing outside the invocation has happened.
Idle == previous = None /\ NoLvv /\ NoConc /\ NoSched /\ NoBot

Init == priceFeed \in PriceFeed /\ Locals /\ Idle

\* Mutant: the candles parsed before the malformed item are returned.
fetch_forex_data_Partial(k) == IF k \in {"ok", "bad_item"} THEN 0..MaxCandles ELSE {0}

\* fetch_forex_data returns the candle list, [] on any failure.
fetch_forex_data(k) == IF k = "ok" THEN 0..MaxCandles ELSE {0}

\* Mutant: a timed-out request answers 0.0.
fetch_current_price_Zero(k) ==
    IF k = "ok" THEN priceFeed ELSE IF k = "timeout" THEN Num(0) ELSE None

\* fetch_current_price returns the provider's price, None on any failure.
fetch_current_price(k) == IF k = "ok" THEN priceFeed ELSE None

\* Mutant: every read is logged.
Logged_Always(k) == 1

\* Both fetch functions call logger.error once on each failure.
Logged(k) == IF k = "ok" THEN 0 ELSE 1

Return(r) == result' = r /\ pc' = "done"

\* line 194
FetchCandles15m ==
    /\ pc = "fetch_15m"
    /\ \E k \in CandleResponses :
          /\ candles_15m' \in fetch_forex_data(k)
          /\ reads' = [reads EXCEPT !.c15 = k]
          /\ log_records' = log_records + Logged(k)
    /\ pc' = "fetch_1h"
    /\ UNCHANGED <<priceFeed, candles_1h, indicators_15m, indicators_1h, current_price,
                   bullish_signals, bearish_signals, confidence, result, calcCalls,
                   priceRequests>>
    /\ UNCHANGED outside

\* line 195
FetchCandles1h ==
    /\ pc = "fetch_1h"
    /\ \E k \in CandleResponses :
          /\ candles_1h' \in fetch_forex_data(k)
          /\ reads' = [reads EXCEPT !.c1h = k]
          /\ log_records' = log_records + Logged(k)
    /\ pc' = "calculate"
    /\ UNCHANGED <<priceFeed, candles_15m, indicators_15m, indicators_1h, current_price,
                   bullish_signals, bearish_signals, confidence, result, calcCalls,
                   priceRequests>>
    /\ UNCHANGED outside

\* lines 197-198
FailNoMarketData ==
    /\ pc = "calculate"
    /\ NoCandles(candles_15m, candles_1h)
    /\ Return(NoMarketData)
    /\ UNCHANGED <<priceFeed, candles_15m, candles_1h, indicators_15m, indicators_1h,
                   current_price, bullish_signals, bearish_signals, confidence,
                   calcCalls, priceRequests, reads, log_records>>
    /\ UNCHANGED outside

\* lines 201-205
CalculateIndicators ==
    /\ pc = "calculate"
    /\ ~NoCandles(candles_15m, candles_1h)
    /\ \E o15 \in TalibOutputs15m(candles_15m), o1h \in TalibOutputs1h(candles_1h) :
          /\ indicators_15m' = calculate_indicators(candles_15m, o15)
          /\ indicators_1h' = calculate_indicators(candles_1h, o1h)
    /\ calcCalls' = calcCalls + 2
    /\ IF indicators_15m' = None \/ indicators_1h' = None
       THEN Return(NotEnoughData)
       ELSE pc' = "price" /\ UNCHANGED result
    /\ UNCHANGED <<priceFeed, candles_15m, candles_1h, current_price, bullish_signals,
                   bearish_signals, confidence, priceRequests, reads, log_records>>
    /\ UNCHANGED outside

\* lines 207-209
FetchCurrentPrice ==
    /\ pc = "price"
    /\ \E k \in PriceResponses :
          /\ k = "ok" <=> priceFeed # None
          /\ current_price' = fetch_current_price(k)
          /\ reads' = [reads EXCEPT !.price = k]
          /\ log_records' = log_records + Logged(k)
    /\ priceRequests' = priceRequests + 1
    /\ IF current_price' = None
       THEN Return(NoCurrentPrice)
       ELSE pc' = "score" /\ UNCHANGED result
    /\ UNCHANGED <<priceFeed, candles_15m, candles_1h, indicators_15m, indicators_1h,
                   bullish_signals, bearish_signals, confidence, calcCalls>>
    /\ UNCHANGED outside

\* lines 211-302
Score ==
    /\ pc = "score"
    /\ IF MissingIndicator(indicators_15m, indicators_1h)
       THEN /\ Return(Calculating(current_price.v))
            /\ UNCHANGED <<bullish_signals, bearish_signals, confidence, log_records>>
       ELSE IF VoteRaises(indicators_15m, indicators_1h, current_price)
       THEN /\ Return(SystemError)
            /\ log_records' = log_records + 1
            /\ UNCHANGED <<bullish_signals, bearish_signals, confidence>>
       ELSE LET t == Tally(indicators_15m, indicators_1h, current_price)
            IN  /\ bullish_signals' = Num(t.bull)
                /\ bearish_signals' = Num(t.bear)
                /\ confidence' = Confidence(t.bull, t.bear)
                /\ IF DecideRaises(indicators_15m, indicators_1h, t)
                   THEN Return(SystemError) /\ log_records' = log_records + 1
                   ELSE /\ Return(Decide(indicators_15m, indicators_1h, current_price, t))
                        /\ UNCHANGED log_records
    /\ UNCHANGED <<priceFeed, candles_15m, candles_1h, indicators_15m, indicators_1h,
                   current_price, calcCalls, priceRequests, reads>>
    /\ UNCHANGED outside

\* The next invocation (scheduler cycle or user request) starts with fresh locals.
Invoke ==
    /\ pc = "done"
    /\ UNCHANGED priceFeed
    /\ pc' = "fetch_15m"
    /\ candles_15m' = None /\ candles_1h' = None
    /\ indicators_15m' = None /\ indicators_1h' = None
    /\ current_price' = None
    /\ bullish_signals' = None /\ bearish_signals' = None /\ confidence' = None
    /\ result' = None
    /\ calcCalls' = 0 /\ priceRequests' = 0
    /\ reads' = NoReads /\ log_records' = 0
    /\ UNCHANGED outside

Next ==
    \/ FetchCandles15m
    \/ FetchCandles1h
    \/ FailNoMarketData
    \/ CalculateIndicators
    \/ FetchCurrentPrice
    \/ Score
    \/ Invoke

Spec == Init /\ [][Next]_vars

\* The steps of one invocation.
Step ==
    \/ FetchCandles15m
    \/ FetchCandles1h
    \/ FailNoMarketData
    \/ CalculateIndicators
    \/ FetchCurrentPrice
    \/ Score

----------------------------------------------------------------------------
(* last_valid_value on its own: applied to every series of up to MaxSeries  *)
(* entries, defined and undefined entries in any order.                     *)

\* The series of exactly n entries.
SeriesOfLength(n) == [1..n -> {NaN, Num(1), Num(2)}]

LvvInit ==
    /\ pc = "lvv"
    /\ \E n \in 0..MaxSeries : arr \in SeriesOfLength(n)
    /\ last_valid = None
    /\ priceFeed = None /\ candles_15m = None /\ candles_1h = None
    /\ indicators_15m = None /\ indicators_1h = None
    /\ current_price = None
    /\ bullish_signals = None /\ bearish_signals = None /\ confidence = None
    /\ result = None
    /\ calcCalls = 0 /\ priceRequests = 0
    /\ reads = NoReads /\ log_records = 0
    /\ previous = None /\ NoConc /\ NoSched /\ NoBot

LvvApply ==
    /\ pc = "lvv"
    /\ last_valid' = last_valid_value(arr)
    /\ pc' = "lvv_done"
    /\ UNCHANGED <<priceFeed, candles_15m, candles_1h, indicators_15m, indicators_1h,
                   current_price, bullish_signals, bearish_signals, confidence, result,
                   calcCalls, priceRequests, reads, log_records>>
    /\ UNCHANGED <<arr, previous, concVars, schedVars, botVars>>

SpecLvv == LvvInit /\ [][LvvApply]_vars

----------------------------------------------------------------------------
(* The scoring step of generate_signal (lines 211-298) evaluated again and  *)
(* again: each evaluation is given two snapshots and a live price, and an   *)
(* earlier evaluation is kept for comparison.                               *)

\* The last closes of the snapshots: inside the fast bands and above them.
RepeatCloses == {3, MaxPrice}

\* The snapshot calculate_indicators returns for MinCandles candles that settle
\* at the values of v and close at `close`.
Snapshot(v, close) ==
    calculate_indicators(MinCandles,
                         TalibSeries(MinCandles, [v EXCEPT !.price = Num(close)]))

\* A few settled records of each timeframe: one EMA above the other, the fast
\* RSI beyond a threshold, the MACD votes absent.
FewFast ==
    {w \in Values15m : /\ w.ema_fast # w.ema_slow
                       /\ w.rsi.v \in {RSI_OVERSOLD - 1, RSI_OVERBOUGHT + 1}
                       /\ w.macd_hist = Num(0)
                       /\ w.atr = Num(1)}

FewSlow ==
    {w \in Values1h : /\ w.ema_fast # w.ema_slow
                      /\ w.rsi = Num(RSI_OVERSOLD)
                      /\ w.macd_hist = Num(0)}

RepeatFast == {Snapshot(v, c) : v \in FewFast, c \in RepeatCloses}

RepeatSlow == {Snapshot(v, c) : v \in FewSlow, c \in RepeatCloses}

\* Live prices below the fast lower band and above the fast upper band.
RepeatPrices == {Num(1), Num(MaxPrice)}

\* The evaluation that has just returned.
Evaluation ==
    [i15 |-> indicators_15m, i1h |-> indicators_1h, price |-> current_price,
     result |-> result]

RepeatInit ==
    /\ pc = "score"
    /\ candles_15m = MinCandles /\ candles_1h = MinCandles
    /\ indicators_15m \in RepeatFast
    /\ indicators_1h \in RepeatSlow
    /\ current_price \in RepeatPrices
    /\ priceFeed = current_price
    /\ bullish_signals = None /\ bearish_signals = None /\ confidence = None
    /\ result = None
    /\ calcCalls = 2 /\ priceRequests = 1
    /\ reads = [c15 |-> "ok", c1h |-> "ok", price |-> "ok"] /\ log_records = 0
    /\ Idle

\* The next evaluation reaches the scoring step with inputs of its own; the
\* evaluation kept for comparison is the one that just returned or an older one.
Reevaluate ==
    /\ pc = "done"
    /\ previous' \in {previous, Evaluation}
    /\ indicators_15m' \in RepeatFast
    /\ indicators_1h' \in RepeatSlow
    /\ current_price' \in RepeatPrices
    /\ priceFeed' = current_price'
    /\ bullish_signals' = None /\ bearish_signals' = None /\ confidence' = None
    /\ result' = None
    /\ pc' = "score"
    /\ UNCHANGED <<candles_15m, candles_1h, calcCalls, priceRequests, reads, log_records>>
    /\ UNCHANGED <<lvvVars, concVars, schedVars, botVars>>

RepeatNext == Score \/ Reevaluate

SpecRepeat == RepeatInit /\ [][RepeatNext]_vars

----------------------------------------------------------------------------
(* generate_signal invoked by two threads at once: the scheduler thread     *)
(* (check_for_signals, line 865) and a worker thread of the bot             *)
(* (handle_get_signal, line 689).  Each invocation has its own locals; the  *)
(* provider is shared, and answers each request with the price of the       *)
(* moment.                                                                  *)

Threads == {"check_for_signals", "handle_get_signal"}

\* The candle lists a fetch returns here: none, one short of the length
\* guard, enough.
ConcCandles == {0, MinCandles - 1, MinCandles}

FreshLocals ==
    [pc |-> "fetch_15m", candles_15m |-> None, candles_1h |-> None,
     indicators_15m |-> None, indicators_1h |-> None, current_price |-> None,
     result |-> None]

ConcInit ==
    /\ inv = [t \in Threads |-> FreshLocals]
    /\ quote = None
    /\ NoEngine /\ previous = None /\ NoLvv /\ NoSched /\ NoBot

\* Thread t's locals become l; nothing else of the program changes.
Assign(t, l) ==
    /\ inv' = [inv EXCEPT ![t] = l]
    /\ UNCHANGED <<engine, previous, lvvVars, schedVars, botVars>>

\* line 194
ConcFetchCandles15m(t) ==
    /\ inv[t].pc = "fetch_15m"
    /\ \E n \in ConcCandles :
          Assign(t, [inv[t] EXCEPT !.candles_15m = n, !.pc = "fetch_1h"])
    /\ UNCHANGED quote

\* line 195
ConcFetchCandles1h(t) ==
    /\ inv[t].pc = "fetch_1h"
    /\ \E n \in ConcCandles :
          Assign(t, [inv[t] EXCEPT !.candles_1h = n, !.pc = "calculate"])
    /\ UNCHANGED quote

\* lines 197-198
ConcFailNoMarketData(t) ==
    /\ inv[t].pc = "calculate"
    /\ NoCandles(inv[t].candles_15m, inv[t].candles_1h)
    /\ Assign(t, [inv[t] EXCEPT !.result = NoMarketData, !.pc = "done"])
    /\ UNCHANGED quote

\* lines 201-205
ConcCalculateIndicators(t) ==
    /\ inv[t].pc = "calculate"
    /\ ~NoCandles(inv[t].candles_15m, inv[t].candles_1h)
    /\ \E v15 \in FewFast, v1h \in FewSlow :
          LET l == inv[t]
              i15 == calculate_indicators(l.candles_15m, TalibSeries(l.candles_15m, v15))
              i1h == calculate_indicators(l.candles_1h, TalibSeries(l.candles_1h, v1h))
              computed == [l EXCEPT !.indicators_15m = i15, !.indicators_1h = i1h]
          IN  IF i15 = None \/ i1h = None
              THEN Assign(t, [computed EXCEPT !.result = NotEnoughData, !.pc = "done"])
              ELSE Assign(t, [computed EXCEPT !.pc = "price"])
    /\ UNCHANGED quote

\* lines 207-209: the provider answers with the price of the moment, or fails.
ConcFetchCurrentPrice(t) ==
    /\ inv[t].pc = "price"
    /\ \E p \in RepeatPrices \cup {None} :
          IF p = None
          THEN /\ Assign(t, [inv[t] EXCEPT !.result = NoCurrentPrice, !.pc = "done"])
               /\ UNCHANGED quote
          ELSE /\ Assign(t, [inv[t] EXCEPT !.current_price = p, !.pc = "score"])
               /\ quote' = p

\* Mutant: current_price kept in a module-level variable.
PriceOf_Global(t) == quote

\* The local current_price of thread t's invocation.
PriceOf(t) == inv[t].current_price

\* lines 211-298
ConcScore(t) ==
    /\ inv[t].pc = "score"
    /\ LET l == inv[t]
           price == PriceOf(t)
           r == IF MissingIndicator(l.indicators_15m, l.indicators_1h)
                THEN Calculating(price.v)
                ELSE Decide(l.indicators_15m, l.indicators_1h, price,
                            Tally(l.indicators_15m, l.indicators_1h, price))
       IN  Assign(t, [l EXCEPT !.result = r, !.pc = "done"])
    /\ UNCHANGED quote

\* The thread's next invocation: the next cycle, the next request.
ConcInvoke(t) ==
    /\ inv[t].pc = "done"
    /\ Assign(t, FreshLocals)
    /\ UNCHANGED quote

ConcNext ==
    \E t \in Threads :
        \/ ConcFetchCandles15m(t)
        \/ ConcFetchCandles1h(t)
        \/ ConcFailNoMarketData(t)
        \/ ConcCalculateIndicators(t)
        \/ ConcFetchCurrentPrice(t)
        \/ ConcScore(t)
        \/ ConcInvoke(t)

SpecConc == ConcInit /\ [][ConcNext]_vars

----------------------------------------------------------------------------
(* check_for_signals, the scheduler's loop, and the main thread that starts *)
(* it.  The script calls run_telegram_bot twice (lines 915 and 942): when   *)
(* the first bot.infinity_polling() returns a second loop is started next to *)
(* the first, and when the second returns the process exits and its daemon  *)
(* threads end with it.                                                     *)

Loops == {1, 2}
Hours == 0..23

\* London or New York session (line 864)
InSession(london_hour) ==
    (7 <= london_hour /\ london_hour < 16) \/ (12 <= london_hour /\ london_hour < 21)

SchedInit ==
    /\ sched = [hour |-> 0,
                loops |-> [i \in Loops |->
                             [pc |-> IF i = 1 THEN "waiting" ELSE "unstarted",
                              signal |-> "none"]]]
    /\ polling = "running"
    /\ alert = None
    /\ NoEngine /\ previous = None /\ NoLvv /\ NoConc /\ NoBot

\* Loop i moves to position p, having read the hour h and holding the signal g.
Goto(i, p, h, g) ==
    /\ sched' = [hour |-> h,
                 loops |-> [sched.loops EXCEPT ![i] = [pc |-> p, signal |-> g]]]
    /\ UNCHANGED <<engine, previous, lvvVars, concVars, polling, alert, botVars>>

\* lines 856-864 and 886: a pass of the loop begins; outside the sessions it
\* sleeps 15 minutes and begins again.
SchedCycle(i) ==
    /\ polling # "exited"
    /\ sched.loops[i].pc = "waiting"
    /\ \E h \in Hours :
          Goto(i, IF InSession(h) THEN "evaluating" ELSE "waiting", h,
               sched.loops[i].signal)

\* lines 865-867: generate_signal returns a decision.
SchedEvaluate(i) ==
    /\ polling # "exited"
    /\ sched.loops[i].pc = "evaluating"
    /\ \E g \in {"BUY", "SELL", "HOLD", "ANALYZING", "ERROR"} :
          Goto(i, IF g \in {"BUY", "SELL"} THEN "notifying" ELSE "waiting",
               sched.hour, g)

\* lines 869-886: the signal is sent to the users, then the loop sleeps.
SchedNotify(i) ==
    /\ polling # "exited"
    /\ sched.loops[i].pc = "notifying"
    /\ Goto(i, "waiting", sched.hour, sched.loops[i].signal)

\* lines 888-890: an exception of the pass is logged, then the loop sleeps.
SchedFail(i) ==
    /\ polling # "exited"
    /\ sched.loops[i].pc = "notifying"
    /\ Goto(i, "waiting", sched.hour, sched.loops[i].signal)

\* bot.infinity_polling() returns (line 902): the bot was stopped.  The first
\* time the script goes on to call run_telegram_bot again, which starts the
\* second loop; the second time the process exits.
StopPolling ==
    /\ polling # "exited"
    /\ IF polling = "running"
       THEN /\ polling' = "rerunning"
            /\ sched' = [sched EXCEPT !.loops[2].pc = "waiting"]
       ELSE /\ polling' = "exited"
            /\ UNCHANGED sched
    /\ UNCHANGED <<engine, previous, lvvVars, concVars, alert, botVars>>

SchedNext ==
    \/ \E i \in Loops : SchedCycle(i) \/ SchedEvaluate(i) \/ SchedNotify(i) \/ SchedFail(i)
    \/ StopPolling

SpecSched == SchedInit /\ [][SchedNext]_vars

----------------------------------------------------------------------------
(* The access codes of the bot.  The handlers run on the worker threads of  *)
(* the bot (telebot.TeleBot(TELEGRAM_TOKEN), line 315, threaded by default), *)
(* so two code-entry messages can be handled at once; the steps of          *)
(* handle_access_code_input are the test of line 616, the assignment of     *)
(* lines 617-622 and the deletion of line 623.  The steps of admin_command  *)
(* are the test of line 374 and the assignments of lines 375-381.           *)

Users == 1..MaxUsers
Codes == 1..MaxCodes
Workers == {1, 2}

\* Time is counted in half days.
\* 30 * 24 * 60 * 60 seconds (line 321)
CODE_LIFETIME == 60

\* timedelta(days=30) (line 336)
USER_LIFETIME == 60

\* The readings of the clock that are followed: the turn of each period of 30
\* days, the half day before it and the two half days after it.
Instants ==
    {t \in 0..(MaxTime * CODE_LIFETIME + 2) :
        \E m \in 0..MaxTime : t - m * CODE_LIFETIME \in -1..2}

\* datetime.now().strftime("%Y-%m-%d") (lines 379 and 620): the date of an
\* instant, as the number of its day.
strftime(t) == t \div 2

\* datetime.strptime(..., "%Y-%m-%d") (line 335): the midnight that begins
\* the day.
strptime(date) == date * 2

\* Dictionaries: functions on the set of their keys.
Empty == [k \in {} |-> None]
Put(d, key, value) == [k \in DOMAIN d \cup {key} |-> IF k = key THEN value ELSE d[k]]
Del(d, key) == [k \in DOMAIN d \ {key} |-> d[k]]

\* Mutant: nothing is dropped.
cleanup_expired_codes_Keep(codes) == codes

\* cleanup_expired_codes
cleanup_expired_codes(codes) ==
    [c \in {k \in DOMAIN codes : ~(codes[k] < now)} |-> codes[c]]

\* is_user_access_valid (lines 331-339)
is_user_access_valid(users, user_id) ==
    /\ user_id \in DOMAIN users
    /\ now < strptime(users[user_id].added_date) + USER_LIFETIME

\* cleanup_expired_users (lines 341-344)
cleanup_expired_users(users) ==
    [u \in {k \in DOMAIN users : is_user_access_valid(users, k)} |-> users[u]]

\* is_authorized (lines 361-363), on the registry that cleanup_expired_users
\* has left.
is_authorized(users, user_id) ==
    \/ user_id \in DOMAIN users /\ is_user_access_valid(users, user_id)
    \/ Num(user_id) = ADMIN_USER_ID

\* The entry written for a user (lines 376-381 and 617-622).  The program
\* keeps the date only; `granted` records the instant of the grant.
Entry(is_admin) ==
    [added_date |-> strftime(now), is_admin |-> is_admin, granted |-> now]

IdleWorker == [pc |-> "idle"]

BotInit ==
    /\ now = 0
    /\ ACCESS_CODES = Empty
    /\ AUTHORIZED_USERS = Empty
    /\ ADMIN_USER_ID = None
    /\ workers = [w \in Workers |-> IdleWorker]
    /\ uses = [c \in Codes |-> {}]
    /\ reply = None
    /\ user_states = Empty
    /\ NoEngine /\ previous = None /\ NoLvv /\ NoConc /\ NoSched

\* lines 368-374 and 391-396: worker w takes the admin command of user_id
\* and tests ADMIN_USER_ID; a user who is not the administrator while there
\* is one is answered with "Access Denied".
admin_command(w, user_id) ==
    /\ workers[w] = IdleWorker
    /\ workers' = [workers EXCEPT ![w] =
                      IF ADMIN_USER_ID = None \/ Num(user_id) = ADMIN_USER_ID
                      THEN [pc |-> "grant", user_id |-> user_id]
                      ELSE IdleWorker]
    /\ UNCHANGED <<now, ACCESS_CODES, AUTHORIZED_USERS, ADMIN_USER_ID, uses>>
    /\ UNCHANGED <<engine, previous, lvvVars, concVars, schedVars, reply, user_states>>

\* lines 375-390: the user is made the administrator, recorded with
\* is_admin True and sent the admin keyboard.
GrantAdmin(w) ==
    /\ workers[w].pc = "grant"
    /\ ADMIN_USER_ID' = Num(workers[w].user_id)
    /\ AUTHORIZED_USERS' =
          Put(AUTHORIZED_USERS, workers[w].user_id,
              Entry(TRUE))
    /\ workers' = [workers EXCEPT ![w] = IdleWorker]
    /\ UNCHANGED <<now, ACCESS_CODES, uses>>
    /\ UNCHANGED <<engine, previous, lvvVars, concVars, schedVars, reply, user_states>>

\* Mutant: the sender is not tested.
handle_generate_code_Open(user_id) ==
    /\ \E code \in Codes :
          /\ ACCESS_CODES' =
                cleanup_expired_codes(Put(ACCESS_CODES, code, now + CODE_LIFETIME))
          /\ uses' = [uses EXCEPT ![code] = {}]
    /\ UNCHANGED <<now, AUTHORIZED_USERS, ADMIN_USER_ID, workers>>
    /\ UNCHANGED <<engine, previous, lvvVars, concVars, schedVars, reply, user_states>>

\* lines 424-444, with generate_access_code (319-323): the code drawn may be
\* one drawn before.
handle_generate_code(user_id) ==
    /\ IF Num(user_id) # ADMIN_USER_ID
       THEN UNCHANGED <<ACCESS_CODES, uses>>
       ELSE \E code \in Codes :
              /\ ACCESS_CODES' =
                    cleanup_expired_codes(Put(ACCESS_CODES, code, now + CODE_LIFETIME))
              /\ uses' = [uses EXCEPT ![code] = {}]
    /\ UNCHANGED <<now, AUTHORIZED_USERS, ADMIN_USER_ID, workers>>
    /\ UNCHANGED <<engine, previous, lvvVars, concVars, schedVars, reply, user_states>>

\* lines 611-616: worker w takes the message `code` of user_id, drops the
\* expired codes and tests the code.  `expired` records that the code was
\* in ACCESS_CODES, past its expiry, when the message was taken.
CheckCode(w, user_id, code) ==
    /\ workers[w] = IdleWorker
    /\ ACCESS_CODES' = cleanup_expired_codes(ACCESS_CODES)
    /\ workers' = [workers EXCEPT ![w] =
                      IF code \in DOMAIN ACCESS_CODES'
                      THEN [pc |-> "authorize", user_id |-> user_id, code |-> code]
                      ELSE [pc |-> "reject", user_id |-> user_id, code |-> code,
                            expired |-> code \in DOMAIN ACCESS_CODES]]
    /\ UNCHANGED <<now, AUTHORIZED_USERS, ADMIN_USER_ID, uses>>
    /\ UNCHANGED <<engine, previous, lvvVars, concVars, schedVars, reply, user_states>>

\* lines 617-622
Authorize(w) ==
    /\ workers[w].pc = "authorize"
    /\ AUTHORIZED_USERS' =
          Put(AUTHORIZED_USERS, workers[w].user_id,
              Entry(FALSE))
    /\ uses' = [uses EXCEPT ![workers[w].code] = @ \cup {workers[w].user_id}]
    /\ workers' = [workers EXCEPT ![w].pc = "delete"]
    /\ UNCHANGED <<now, ACCESS_CODES, ADMIN_USER_ID>>
    /\ UNCHANGED <<engine, previous, lvvVars, concVars, schedVars, reply, user_states>>

\* line 623 and the rest of the handler; `del` of a code that is gone raises
\* KeyError, which ends the handler.
DeleteCode(w) ==
    /\ workers[w].pc = "delete"
    /\ ACCESS_CODES' = Del(ACCESS_CODES, workers[w].code)
    /\ workers' = [workers EXCEPT ![w] = IdleWorker]
    /\ UNCHANGED <<now, AUTHORIZED_USERS, ADMIN_USER_ID, uses>>
    /\ UNCHANGED <<engine, previous, lvvVars, concVars, schedVars, reply, user_states>>

\* lines 667-675: an unknown code is answered with "Invalid Access Code".
RejectCode(w) ==
    /\ workers[w].pc = "reject"
    /\ workers' = [workers EXCEPT ![w] = IdleWorker]
    /\ UNCHANGED <<now, ACCESS_CODES, AUTHORIZED_USERS, ADMIN_USER_ID, uses>>
    /\ UNCHANGED <<engine, previous, lvvVars, concVars, schedVars, reply, user_states>>

\* Time passes.
Tick ==
    /\ \E t \in Instants : now < t /\ now' = t
    /\ UNCHANGED <<ACCESS_CODES, AUTHORIZED_USERS, ADMIN_USER_ID, workers, uses>>
    /\ UNCHANGED <<engine, previous, lvvVars, concVars, schedVars, reply, user_states>>

BotNext ==
    \/ \E w \in Workers, u \in Users : admin_command(w, u)
    \/ \E w \in Workers : GrantAdmin(w)
    \/ \E u \in Users : handle_generate_code(u)
    \/ \E w \in Workers, u \in Users, c \in Codes : CheckCode(w, u, c)
    \/ \E w \in Workers : Authorize(w)
    \/ \E w \in Workers : DeleteCode(w)
    \/ \E w \in Workers : RejectCode(w)
    \/ Tick

SpecBot == BotInit /\ [][BotNext]_vars

----------------------------------------------------------------------------
(* The admin panel: Remove User and Broadcast ask the administrator for a   *)
(* further message and keep what they wait for in user_states.  A message   *)
(* is given to the first handler registered whose test it passes, so the    *)
(* buttons, registered before them, never reach the two input handlers.     *)

\* What a user types: the id of a user, the id of nobody (0), or words.
Texts == {Num(n) : n \in 0..MaxUsers} \cup {[tag |-> "words"]}

\* user_states.get(message.from_user.id) (lines 515 and 568)
StateOf(user_id) ==
    IF user_id \in DOMAIN user_states THEN user_states[user_id] ELSE "none"

\* del user_states[message.from_user.id], reached only when the message
\* sent before it was delivered: a failed send raises and ends the handler.
Forget(user_id, delivered) ==
    user_states' = IF delivered THEN Del(user_states, user_id) ELSE user_states

\* lines 501-513
handle_remove_user(user_id) ==
    /\ user_states' = IF Num(user_id) # ADMIN_USER_ID THEN user_states
                      ELSE Put(user_states, user_id, "awaiting_user_id")
    /\ UNCHANGED <<now, ACCESS_CODES, AUTHORIZED_USERS, ADMIN_USER_ID, workers, uses, reply>>
    /\ UNCHANGED <<engine, previous, lvvVars, concVars, schedVars>>

\* lines 515-552: int(message.text) raises ValueError for words.
handle_user_id_input(user_id, text, delivered) ==
    /\ StateOf(user_id) = "awaiting_user_id"
    /\ IF Num(user_id) # ADMIN_USER_ID
       THEN UNCHANGED <<AUTHORIZED_USERS, user_states>>
       ELSE /\ AUTHORIZED_USERS' =
                  IF text.tag = "num" /\ text.v \in DOMAIN AUTHORIZED_USERS
                  THEN Del(AUTHORIZED_USERS, text.v)
                  ELSE AUTHORIZED_USERS
            /\ Forget(user_id, delivered)
    /\ UNCHANGED <<now, ACCESS_CODES, ADMIN_USER_ID, workers, uses, reply>>
    /\ UNCHANGED <<engine, previous, lvvVars, concVars, schedVars>>

\* lines 554-566
handle_broadcast(user_id) ==
    /\ user_states' = IF Num(user_id) # ADMIN_USER_ID THEN user_states
                      ELSE Put(user_states, user_id, "awaiting_broadcast")
    /\ UNCHANGED <<now, ACCESS_CODES, AUTHORIZED_USERS, ADMIN_USER_ID, workers, uses, reply>>
    /\ UNCHANGED <<engine, previous, lvvVars, concVars, schedVars>>

\* lines 568-599: the sends to the users are guarded (lines 578-587), the
\* report to the administrator (line 589) is not.
handle_broadcast_message(user_id, delivered) ==
    /\ StateOf(user_id) = "awaiting_broadcast"
    /\ IF Num(user_id) # ADMIN_USER_ID
       THEN UNCHANGED user_states
       ELSE Forget(user_id, delivered)
    /\ UNCHANGED <<now, ACCESS_CODES, AUTHORIZED_USERS, ADMIN_USER_ID, workers, uses, reply>>
    /\ UNCHANGED <<engine, previous, lvvVars, concVars, schedVars>>

AdminNext ==
    \/ \E w \in Workers, u \in Users : admin_command(w, u)
    \/ \E w \in Workers : GrantAdmin(w)
    \/ \E u \in Users : handle_generate_code(u)
    \/ \E u \in Users : handle_remove_user(u)
    \/ \E u \in Users, t \in Texts, d \in BOOLEAN : handle_user_id_input(u, t, d)
    \/ \E u \in Users : handle_broadcast(u)
    \/ \E u \in Users, d \in BOOLEAN : handle_broadcast_message(u, d)
    \/ \E w \in Workers, u \in Users, c \in Codes : CheckCode(w, u, c)
    \/ \E w \in Workers : Authorize(w)
    \/ \E w \in Workers : DeleteCode(w)
    \/ \E w \in Workers : RejectCode(w)

SpecAdmin == BotInit /\ [][AdminNext]_vars

----------------------------------------------------------------------------
(* The Get Signal and Current Price buttons.  Both handlers begin with      *)
(* is_authorized, whose cleanup_expired_users walks over AUTHORIZED_USERS   *)
(* (line 342) while the other worker may be adding or removing an entry: a  *)
(* dictionary that has changed its size since the walk began makes the walk *)
(* raise RuntimeError, which ends the handler.                              *)

Buttons == {"handle_get_signal", "handle_get_price"}

\* Mutant: every decision but ERROR.
Tradable_NotError(signal) == signal # "ERROR"

\* signal in ["BUY", "SELL"] (lines 695 and 867)
Tradable(signal) == signal \in {"BUY", "SELL"}

\* The administrator has issued the admin command and generated a code, or
\* nobody has issued an admin command yet.  No further code is generated.
GateInit ==
    /\ now = 0
    /\ \/ /\ ADMIN_USER_ID = Num(1)
          /\ AUTHORIZED_USERS = Put(Empty, 1, Entry(TRUE))
          /\ ACCESS_CODES = Put(Empty, 1, now + CODE_LIFETIME)
       \/ /\ ADMIN_USER_ID = None
          /\ AUTHORIZED_USERS = Empty
          /\ ACCESS_CODES = Empty
    /\ workers = [w \in Workers |-> IdleWorker]
    /\ uses = [c \in Codes |-> {}]
    /\ reply = None
    /\ user_states = Empty
    /\ NoEngine /\ previous = None /\ NoLvv /\ NoConc /\ NoSched

\* lines 682 and 735, with line 342: worker w takes the button pressed by
\* user_id and the walk over AUTHORIZED_USERS begins.
Press(w, user_id, button) ==
    /\ workers[w] = IdleWorker
    /\ workers' = [workers EXCEPT ![w] =
                      [pc |-> "sweep", user_id |-> user_id, button |-> button,
                       used |-> Cardinality(DOMAIN AUTHORIZED_USERS)]]
    /\ UNCHANGED <<now, ACCESS_CODES, AUTHORIZED_USERS, ADMIN_USER_ID, uses, reply,
                   user_states>>
    /\ UNCHANGED <<engine, previous, lvvVars, concVars, schedVars>>

\* The sender is the administrator or has an entry granted less than 30 days
\* ago: the condition each answer is judged by, recorded with the answer.
Entitled(user_id) ==
    \/ Num(user_id) = ADMIN_USER_ID
    \/ /\ user_id \in DOMAIN AUTHORIZED_USERS
       /\ now - AUTHORIZED_USERS[user_id].granted < USER_LIFETIME

\* What handle_get_signal sends for a decision (lines 691-728).
SignalText(signal) ==
    IF signal = "ERROR" THEN "system_error"
    ELSE IF Tradable(signal) THEN "trade_signal"
    ELSE "market_analysis"

\* What handle_get_price sends for a price read (lines 739-771).
PriceText(k) == IF k = "ok" THEN "price" ELSE "no_price"

\* The answer of worker w: its text, the decision it presents, and whether
\* generate_signal or fetch_current_price was called for it.
Answer(w, text, signal, fetched) ==
    reply' = [text |-> text, signal |-> signal, fetched |-> fetched,
              entitled |-> Entitled(workers[w].user_id)]

\* lines 342-344, 363 and the rest of the handler: the walk ends, the
\* expired users are deleted, and the sender is answered.
Serve(w) ==
    /\ workers[w].pc = "sweep"
    /\ workers' = [workers EXCEPT ![w] = IdleWorker]
    /\ IF Cardinality(DOMAIN AUTHORIZED_USERS) # workers[w].used
       THEN /\ UNCHANGED AUTHORIZED_USERS
            /\ Answer(w, "none", "none", FALSE)
       ELSE /\ AUTHORIZED_USERS' = cleanup_expired_users(AUTHORIZED_USERS)
            /\ IF ~is_authorized(AUTHORIZED_USERS', workers[w].user_id)
               THEN Answer(w, "denied", "none", FALSE)
               ELSE IF workers[w].button = "handle_get_signal"
               THEN \E signal \in {"BUY", "SELL", "HOLD", "ANALYZING", "ERROR"} :
                       Answer(w, SignalText(signal), signal, TRUE)
               ELSE \E k \in PriceResponses : Answer(w, PriceText(k), "none", TRUE)
    /\ UNCHANGED <<now, ACCESS_CODES, ADMIN_USER_ID, uses, user_states>>
    /\ UNCHANGED <<engine, previous, lvvVars, concVars, schedVars>>

GateNext ==
    \/ \E w \in Workers, u \in Users, b \in Buttons : Press(w, u, b)
    \/ \E w \in Workers : Serve(w)
    \/ \E w \in Workers, u \in Users, c \in Codes : CheckCode(w, u, c)
    \/ \E w \in Workers : Authorize(w)
    \/ \E w \in Workers : DeleteCode(w)
    \/ \E w \in Workers : RejectCode(w)
    \/ Tick

SpecGate == GateInit /\ [][GateNext]_vars

----------------------------------------------------------------------------
(* check_for_signals with the users it alerts, next to the handlers that    *)
(* change AUTHORIZED_USERS.  The loop of line 869 walks over the dictionary *)
(* itself; as in cleanup_expired_users, a dictionary that has changed its   *)
(* size since the walk began makes the walk raise RuntimeError, which here  *)
(* is raised by the `for` statement, outside the try of line 870, and is    *)
(* caught by the handler of line 888.                                       *)

\* The users who send messages to the bot: one more than are authorized at
\* the beginning.
Senders == 1..(MaxUsers + 1)

\* Between two passes of the loop; nothing was sent for the decision `signal`.
Asleep(signal) ==
    [pc |-> "waiting", signal |-> signal, used |-> 0, visited |-> {}, sent |-> {},
     audience |-> {}]

\* The administrator and the users 2..MaxUsers are authorized, and the
\* administrator has generated a code.
AlertInit ==
    /\ now = 0
    /\ ADMIN_USER_ID = Num(1)
    /\ AUTHORIZED_USERS = [u \in Users |-> Entry(u = 1)]
    /\ ACCESS_CODES = Put(Empty, 1, now + CODE_LIFETIME)
    /\ workers = [w \in Workers |-> IdleWorker]
    /\ uses = [c \in Codes |-> {}]
    /\ reply = None
    /\ user_states = Empty
    /\ alert = Asleep("none")
    /\ sched = None /\ polling = None
    /\ NoEngine /\ previous = None /\ NoLvv /\ NoConc

\* lines 856-864 and 886: a pass of the loop begins; outside the sessions it
\* sleeps 15 minutes and begins again.
AlertCycle ==
    /\ alert.pc = "waiting"
    /\ \E london_hour \in Hours :
          alert' = [alert EXCEPT !.pc = IF InSession(london_hour) THEN "evaluating"
                                        ELSE "waiting"]
    /\ UNCHANGED <<engine, previous, lvvVars, concVars, sched, polling, botVars>>

\* lines 865-869: generate_signal returns a decision; for BUY and SELL the
\* walk over AUTHORIZED_USERS begins, for the others the loop sleeps.
\* `audience` records the users who are authorized at this moment.
AlertEvaluate ==
    /\ alert.pc = "evaluating"
    /\ \E signal \in {"BUY", "SELL", "HOLD", "ANALYZING", "ERROR"} :
          alert' = IF Tradable(signal)
                   THEN [pc |-> "notifying", signal |-> signal,
                         used |-> Cardinality(DOMAIN AUTHORIZED_USERS),
                         visited |-> {}, sent |-> {},
                         audience |-> DOMAIN AUTHORIZED_USERS]
                   ELSE Asleep(signal)
    /\ UNCHANGED <<engine, previous, lvvVars, concVars, sched, polling, botVars>>

\* lines 869-886 and 888-890: the walk takes the next user and sends the
\* alert, which may fail (logged, line 883); at the end of the walk the loop
\* sleeps.  When the dictionary has changed its size the walk raises; the
\* exception is logged (line 889) and the loop sleeps one minute.
AlertWalk ==
    /\ alert.pc = "notifying"
    /\ IF Cardinality(DOMAIN AUTHORIZED_USERS) # alert.used
          \/ DOMAIN AUTHORIZED_USERS \subseteq alert.visited
       THEN alert' = [alert EXCEPT !.pc = "waiting"]
       ELSE \E user_id \in DOMAIN AUTHORIZED_USERS \ alert.visited, ok \in BOOLEAN :
              alert' = [alert EXCEPT !.visited = @ \cup {user_id},
                                     !.sent = IF ok THEN @ \cup {user_id} ELSE @]
    /\ UNCHANGED <<engine, previous, lvvVars, concVars, sched, polling, botVars>>

AlertNext ==
    \/ AlertCycle
    \/ AlertEvaluate
    \/ AlertWalk
    \/ \E w \in Workers, u \in Senders : Press(w, u, "handle_get_signal")
    \/ \E w \in Workers : Serve(w)
    \/ \E w \in Workers, u \in Senders, c \in Codes : CheckCode(w, u, c)
    \/ \E w \in Workers : Authorize(w)
    \/ \E w \in Workers : DeleteCode(w)
    \/ \E w \in Workers : RejectCode(w)

SpecAlert == AlertInit /\ [][AlertNext]_vars

----------------------------------------------------------------------------
(* calculate_indicators on its own: applied to a candle list of any length, *)
(* the empty one included.                                                  *)

CalcInit ==
    /\ pc = "calc"
    /\ candles_15m \in fetch_forex_data("ok")
    /\ priceFeed = None /\ candles_1h = None
    /\ indicators_15m = None /\ indicators_1h = None
    /\ current_price = None
    /\ bullish_signals = None /\ bearish_signals = None /\ confidence = None
    /\ result = None
    /\ calcCalls = 0 /\ priceRequests = 0
    /\ reads = NoReads /\ log_records = 0
    /\ Idle

CalcApply ==
    /\ pc = "calc"
    /\ \E out \in TalibOutputs15m(candles_15m) :
          indicators_15m' = calculate_indicators(candles_15m, out)
    /\ calcCalls' = calcCalls + 1
    /\ pc' = "calc_done"
    /\ UNCHANGED <<priceFeed, candles_15m, candles_1h, indicators_1h, current_price,
                   bullish_signals, bearish_signals, confidence, result, priceRequests,
                   reads, log_records>>
    /\ UNCHANGED outside

SpecCalc == CalcInit /\ [][CalcApply]_vars

----------------------------------------------------------------------------
(* Properties *)

Done == pc = "done"

\* The invocation reached the scoring step (line 217).
Scored == Done /\ bullish_signals # None

\* Every field of the snapshot is present.
Valid(ind) == ind # None /\ \A f \in DOMAIN ind : ind[f] # None

\* The snapshot is unavailable: too few candles, or an indicator without a value.
Unavailable(candles, ind) == candles < 50 \/ ~Valid(ind)

Indicator(cond) == IF cond THEN 1 ELSE 0

\* C1: with two valid snapshots and a live price the decision is BUY exactly
\* when bullish > bearish and confidence > 30, SELL exactly when bearish >
\* bullish and confidence > 30, and HOLD in every other case.
C1_DecisionRule ==
    (Done /\ Valid(indicators_15m) /\ Valid(indicators_1h) /\ current_price # None) =>
        /\ Scored
        /\ LET b == bullish_signals.v
               s == bearish_signals.v
               over30 == Abs(b - s) * 100 > 30 * (b + s)
           IN  /\ result.signal = "BUY" <=> (b > s /\ over30)
               /\ result.signal = "SELL" <=> (s > b /\ over30)
               /\ result.signal = "HOLD" <=> ~(b # s /\ over30)

\* A strict majority whose confidence is 30 or less, held.
C1_Witness ==
    /\ Scored
    /\ bullish_signals.v > bearish_signals.v
    /\ Abs(bullish_signals.v - bearish_signals.v) * 100
          <= 30 * (bullish_signals.v + bearish_signals.v)
    /\ result.signal = "HOLD"

\* C2: at the scoring step confidence is |bullish - bearish| / (bullish +
\* bearish) * 100 and lies in [0, 100]; on a tie it is 0 and the decision is
\* neither BUY nor SELL.
C2_ConfidenceRange ==
    Scored =>
        LET b == bullish_signals.v
            s == bearish_signals.v
        IN  /\ confidence.den > 0
            /\ confidence.num * (b + s) = Abs(b - s) * 100 * confidence.den
            /\ 0 <= confidence.num
            /\ confidence.num <= 100 * confidence.den
            /\ b = s => confidence.num = 0 /\ result.signal \notin {"BUY", "SELL"}

\* A tie with votes on both sides.
C2_Witness == Scored /\ bullish_signals = bearish_signals /\ bullish_signals.v > 0

\* The vote as the claim states it, one term per rule.
RefBullish(f, s, price) ==
    Indicator(f.ema_fast.v > f.ema_slow.v) + 2 * Indicator(s.ema_fast.v > s.ema_slow.v)
    + Indicator(f.rsi.v < 30) + Indicator(s.rsi.v < 30)
    + Indicator(f.macd_hist.v > 0 /\ f.macd.v > f.macd_signal.v)
    + Indicator(s.macd_hist.v > 0 /\ s.macd.v > s.macd_signal.v)
    + Indicator(price.v < f.lower_bb.v)

RefBearish(f, s, price) ==
    Indicator(~(f.ema_fast.v > f.ema_slow.v)) + 2 * Indicator(~(s.ema_fast.v > s.ema_slow.v))
    + Indicator(f.rsi.v > 70) + Indicator(s.rsi.v > 70)
    + Indicator(f.macd_hist.v < 0 /\ f.macd.v < f.macd_signal.v)
    + Indicator(s.macd_hist.v < 0 /\ s.macd.v < s.macd_signal.v)
    + Indicator(price.v > f.upper_bb.v)

\* C3: the tallies of generate_signal equal the weighted vote: trend 1 (fast)
\* and 2 (slow) with equality bearish, RSI below 30 bullish and above 70
\* bearish, MACD by histogram sign and line against signal, live price
\* against the fast bands only.
C3_WeightedVote ==
    Scored =>
        /\ bullish_signals.v = RefBullish(indicators_15m, indicators_1h, current_price)
        /\ bearish_signals.v = RefBearish(indicators_15m, indicators_1h, current_price)

\* Equal fast EMAs, an RSI on a threshold and a live price above the slow upper
\* band but not above the fast one.
C3_Witness ==
    /\ Scored
    /\ indicators_15m.ema_fast = indicators_15m.ema_slow
    /\ indicators_1h.rsi.v = 70
    /\ current_price.v > indicators_1h.upper_bb.v
    /\ current_price.v <= indicators_15m.upper_bb.v

\* C4: with a fast ATR above 0, BUY has stopLoss < entry < takeProfit and SELL
\* has takeProfit < entry < stopLoss, the entry being the live price.
C4_LevelOrder ==
    (Done /\ result.signal \in {"BUY", "SELL"} /\ indicators_15m.atr.v > 0) =>
        /\ result.price = Fix(current_price.v)
        /\ result.signal = "BUY" => result.sl < result.price /\ result.price < result.tp
        /\ result.signal = "SELL" => result.tp < result.price /\ result.price < result.sl

C4_Witness == Done /\ result.signal = "SELL" /\ indicators_15m.atr.v > 0

\* C5: for BUY and SELL the stop distance is ATR(fast) * 0.8 and the target
\* distance ATR(fast) * 1.2, so the target distance is 1.5 times the stop
\* distance (levels in hundredths: 80 and 120 per tick of ATR).
C5_Distances ==
    (Done /\ result.signal \in {"BUY", "SELL"}) =>
        /\ Abs(result.price - result.sl) = indicators_15m.atr.v * 80
        /\ Abs(result.tp - result.price) = indicators_15m.atr.v * 120
        /\ 10 * Abs(result.tp - result.price) = 15 * Abs(result.price - result.sl)

C5_Witness ==
    /\ Done /\ result.signal = "BUY"
    /\ indicators_15m.atr.v > 0
    /\ indicators_15m.atr # indicators_1h.atr

\* C6: every HOLD decision has entry, take-profit and stop-loss equal to the
\* live price.
C6_HoldLevels ==
    (Done /\ result.signal = "HOLD") =>
        /\ result.price = Fix(current_price.v)
        /\ result.tp = Fix(current_price.v)
        /\ result.sl = Fix(current_price.v)

C6_Witness == Done /\ result.signal = "HOLD" /\ indicators_15m.atr.v > 0

\* Both candle fetches returned data and a snapshot is unavailable.
SnapshotUnavailable ==
    /\ Done
    /\ candles_15m > 0 /\ candles_1h > 0
    /\ Unavailable(candles_15m, indicators_15m) \/ Unavailable(candles_1h, indicators_1h)

\* C7, as stated: when both candle fetches return data and either snapshot is
\* unavailable, the decision is ANALYZING whatever the current-price fetch
\* does.  Refuted: with 50 candles each, an indicator without a value and a
\* failed price fetch the decision is ERROR (lines 207-209 precede 212-214).
C7_AsStated == SnapshotUnavailable => result.signal = "ANALYZING"

\* C7, amended: when both candle fetches return data and either snapshot is
\* unavailable, the decision is ANALYZING without a price request if a
\* timeframe has fewer than 50 candles; otherwise (an indicator without a
\* value) it is ANALYZING if the price fetch succeeds and ERROR if it fails.
C7_AnalyzingUnlessPriceFails ==
    SnapshotUnavailable =>
        IF candles_15m < 50 \/ candles_1h < 50
        THEN result.signal = "ANALYZING" /\ priceRequests = 0
        ELSE IF priceFeed = None
        THEN result.signal = "ERROR"
        ELSE result.signal = "ANALYZING"

\* Enough candles, the slow ATR without a value, the price fetched: ANALYZING.
C7_Witness ==
    /\ SnapshotUnavailable
    /\ candles_15m >= 50 /\ candles_1h >= 50
    /\ indicators_1h.atr = None
    /\ current_price # None
    /\ result.signal = "ANALYZING"

\* C8, as stated: whenever the provider cannot supply the current price the
\* decision is ERROR, for every state of the candle data.  Refuted: with
\* fewer than 50 candles in a timeframe the decision is ANALYZING and the
\* price is never requested (lines 204-205 precede 207).
C8_AsStated == (Done /\ priceFeed = None) => result.signal = "ERROR"

\* C8, amended: whenever the provider cannot supply the current price the
\* decision is ERROR, except that it is ANALYZING, with no price request
\* made, when both candle fetches return data and a timeframe has fewer than
\* 50 candles.
C8_ErrorUnlessTooFewCandles ==
    (Done /\ priceFeed = None) =>
        IF candles_15m > 0 /\ candles_1h > 0 /\ (candles_15m < 50 \/ candles_1h < 50)
        THEN result.signal = "ANALYZING" /\ priceRequests = 0
        ELSE result.signal = "ERROR"

\* Two valid snapshots, the price requested and not supplied: ERROR.
C8_Witness ==
    /\ Done /\ priceFeed = None
    /\ Valid(indicators_15m) /\ Valid(indicators_1h)
    /\ priceRequests = 1
    /\ result.signal = "ERROR"

\* C9: if either candle fetch yields no candles the decision is ERROR with
\* entry, take-profit and stop-loss 0, no indicator is computed and the
\* current price is not requested.
C9_NoCandles ==
    (Done /\ (candles_15m = 0 \/ candles_1h = 0)) =>
        /\ result.signal = "ERROR"
        /\ result.price = 0 /\ result.tp = 0 /\ result.sl = 0
        /\ calcCalls = 0 /\ indicators_15m = None /\ indicators_1h = None
        /\ priceRequests = 0 /\ current_price = None

\* One timeframe empty, the other with enough candles.
C9_Witness == Done /\ candles_15m = 0 /\ candles_1h >= 50 /\ result.signal = "ERROR"

\* C10: calculate_indicators returns None for every candle list of fewer than
\* 50 entries, the empty one included, and a snapshot record for 50 or more.
C10_LengthGuard ==
    pc = "calc_done" =>
        /\ candles_15m < 50 => indicators_15m = None
        /\ candles_15m >= 50 =>
              /\ indicators_15m # None
              /\ DOMAIN indicators_15m = Fields \cup {"price"}

\* The empty list, unavailable as a whole.
C10_Witness == pc = "calc_done" /\ candles_15m = 0 /\ indicators_15m = None

\* The directions a decision can have.
Directions == {"BUY", "SELL", "HOLD", "ANALYZING", "ERROR"}

\* The outcomes of a read that failed.
Failures == {"no_values", "bad_item", "no_price", "timeout", "error"}

FailedReads == {r \in DOMAIN reads : reads[r] \in Failures}

\* generate_signal's own handler (lines 300-302) ran: a record beyond those of
\* the fetch functions.
Caught == log_records > Cardinality(FailedReads)

ErrorDecision ==
    result.signal = "ERROR" /\ result.price = 0 /\ result.tp = 0 /\ result.sl = 0

\* C11: an invocation is always at a step of generate_signal or has returned
\* a decision whose direction is BUY, SELL, HOLD, ANALYZING or ERROR; when a
\* read failed (provider failure, answer without an expected field) or an
\* exception was caught, the decision is ERROR with the three levels 0.
C11_ErrorNeverRaised ==
    /\ pc \in {"fetch_15m", "fetch_1h", "calculate", "price", "score", "done"}
    /\ Done <=> result # None
    /\ Done => result.signal \in Directions
    /\ (Done /\ (FailedReads # {} \/ Caught)) => ErrorDecision

\* The slow timeframe answered with an item that lacks a field, the fast one
\* with enough candles.
C11_Witness ==
    /\ Done
    /\ reads.c15 = "ok" /\ candles_15m >= 50
    /\ reads.c1h = "bad_item"
    /\ ErrorDecision

\* The steps that remain, at most, before generate_signal returns.
Remaining ==
    CASE pc = "fetch_15m" -> 5
      [] pc = "fetch_1h" -> 4
      [] pc = "calculate" -> 3
      [] pc = "price" -> 2
      [] pc = "score" -> 1
      [] OTHER -> 0

\* C12: every invocation terminates: until it has returned a step can always
\* be taken (a read never waits beyond its timeout) and every step leaves
\* fewer steps to take, five at the start; and when one of the reads it made
\* timed out, the decision it returns is ERROR.
C12_TerminatesTimeoutIsError ==
    /\ [](~Done => ENABLED Step)
    /\ [][~Done => Remaining' < Remaining]_vars
    /\ [](Done /\ (\E r \in DOMAIN reads : reads[r] = "timeout") => result.signal = "ERROR")

\* The price request was made and timed out.
C12_Witness ==
    /\ Done
    /\ reads = [c15 |-> "ok", c1h |-> "ok", price |-> "timeout"]
    /\ result.signal = "ERROR"

\* C15: when no vote is bearish the confidence is 100 and the decision is BUY
\* with stopLoss = price - ATR * 0.8 and takeProfit = price + ATR * 1.2; when
\* no vote is bullish the confidence is 100 and the decision is SELL with the
\* levels mirrored (levels in hundredths of a tick).
C15_Unanimous ==
    Scored =>
        LET price == Fix(current_price.v)
            atr == indicators_15m.atr.v
        IN  /\ bearish_signals.v = 0 =>
                  /\ confidence.num = 100 * confidence.den
                  /\ result.signal = "BUY"
                  /\ result.price = price
                  /\ result.sl = price - atr * 80
                  /\ result.tp = price + atr * 120
            /\ bullish_signals.v = 0 =>
                  /\ confidence.num = 100 * confidence.den
                  /\ result.signal = "SELL"
                  /\ result.price = price
                  /\ result.sl = price + atr * 80
                  /\ result.tp = price - atr * 120

\* Five bullish votes and none bearish, the fast ATR above 0.
C15_Witness ==
    /\ Scored
    /\ bullish_signals.v = 5 /\ bearish_signals.v = 0
    /\ indicators_15m.atr.v > 0
    /\ result.signal = "BUY"

Outcome(d) == <<d.signal, d.price, d.tp, d.sl>>

\* The evaluation that has returned was given the snapshots and the live price
\* of the earlier evaluation.
SameInputs ==
    /\ Done /\ previous # None
    /\ previous.i15 = indicators_15m
    /\ previous.i1h = indicators_1h
    /\ previous.price = current_price

SameButLastClose ==
    /\ Done /\ previous # None
    /\ [previous.i15 EXCEPT !.price = indicators_15m.price] = indicators_15m
    /\ [previous.i1h EXCEPT !.price = indicators_1h.price] = indicators_1h
    /\ previous.price = current_price

\* C14: two evaluations whose inputs differ only in the snapshots' last close
\* return the same direction, entry, take-profit and stop-loss: the entry and
\* the vote against the bands use the live price alone.
C14_LastCloseUnused == SameButLastClose => Outcome(result) = Outcome(previous.result)

\* The fast last close was inside the bands and is now above them, the live
\* price below them both times: the vote and the BUY are the same.
C14_Witness ==
    /\ SameButLastClose
    /\ previous.i15.price.v <= indicators_15m.upper_bb.v
    /\ indicators_15m.price.v > indicators_15m.upper_bb.v
    /\ current_price.v < indicators_15m.lower_bb.v
    /\ result.signal = "BUY"

\* The indices of the defined entries of the series.
DefinedAt == {i \in 1..Len(arr) : arr[i] # NaN}

\* C16: last_valid_value returns the entry at the greatest index whose value
\* is defined, and None when the series is empty or has no defined entry; it
\* never returns an undefined entry.
C16_LastDefined ==
    pc = "lvv_done" =>
        /\ last_valid # NaN
        /\ IF DefinedAt = {}
           THEN last_valid = None
           ELSE \E i \in DefinedAt :
                   /\ \A j \in DefinedAt : j <= i
                   /\ last_valid = arr[i]

\* A defined entry between undefined ones, and a different one before it.
C16_Witness ==
    /\ pc = "lvv_done"
    /\ arr = <<Num(2), NaN, Num(1), NaN>>
    /\ last_valid = Num(1)

\* What generate_signal returns when it runs alone on the data of l: the
\* checks of lines 197-214 in order, then the vote and the decision rule.
Alone(l) ==
    IF l.candles_15m = 0 \/ l.candles_1h = 0 THEN NoMarketData
    ELSE IF l.indicators_15m = None \/ l.indicators_1h = None THEN NotEnoughData
    ELSE IF l.current_price = None THEN NoCurrentPrice
    ELSE IF MissingIndicator(l.indicators_15m, l.indicators_1h)
    THEN Calculating(l.current_price.v)
    ELSE Decide(l.indicators_15m, l.indicators_1h, l.current_price,
                Tally(l.indicators_15m, l.indicators_1h, l.current_price))

Stopped(i) == IF i = 1 THEN polling # "running" ELSE polling = "exited"

\* C18, as stated: the loop is cancellable; once the bot has been stopped, a
\* loop that is between two cycles observes it and starts no new evaluation
\* cycle.  Refuted: `while True` (line 856) tests nothing, and after its sleep
\* the first loop calls generate_signal again.
C18_AsStated ==
    [][\A i \in Loops :
          (Stopped(i) /\ sched.loops[i].pc = "waiting")
              => sched'.loops[i].pc # "evaluating"]_vars

\* The code is in the hands of a worker that is handling its entry.
InHand(c) ==
    \E w \in Workers : workers[w].pc \in {"authorize", "delete"} /\ workers[w].code = c

\* C20, as stated: a generated access code authorizes at most one user in
\* every interleaving of the code-entry messages, and once a redemption has
\* completed the code is no longer in ACCESS_CODES.  Refuted: two workers
\* both pass the test of line 616 before either deletes the code (line 623),
\* and both users are added to AUTHORIZED_USERS.
C20_AsStated ==
    \A c \in Codes :
        /\ Cardinality(uses[c]) <= 1
        /\ (uses[c] # {} /\ ~InHand(c)) => c \notin DOMAIN ACCESS_CODES

IsAdmin(user_id) == Num(user_id) = ADMIN_USER_ID

\* C25: the registries change only through the gated requests.  A step that
\* puts a code into ACCESS_CODES is a Generate Code request of the
\* administrator; a step that writes the entry of a user who is not the
\* administrator is the authorization of a code entry, and a code entry is
\* admitted to it only with a code that is in ACCESS_CODES; a step that
\* removes a user is the Remove User input of the administrator; and a
\* Generate Code request, a Remove User request or a Remove User input of
\* anybody else leaves ACCESS_CODES, AUTHORIZED_USERS and user_states as they
\* are.
C25_Gated ==
    /\ [][\A c \in DOMAIN ACCESS_CODES' :
            (c \notin DOMAIN ACCESS_CODES \/ ACCESS_CODES'[c] # ACCESS_CODES[c])
                => \E u \in Users : IsAdmin(u) /\ handle_generate_code(u)]_vars
    /\ [][\A u \in DOMAIN AUTHORIZED_USERS' :
            (/\ Num(u) # ADMIN_USER_ID'
             /\ (u \notin DOMAIN AUTHORIZED_USERS
                   \/ AUTHORIZED_USERS'[u] # AUTHORIZED_USERS[u]))
                => \E w \in Workers : Authorize(w) /\ workers[w].user_id = u]_vars
    /\ [][\A w \in Workers, u \in Users, c \in Codes :
            (CheckCode(w, u, c) /\ workers'[w].pc = "authorize")
                => c \in DOMAIN ACCESS_CODES]_vars
    /\ [][\A u \in DOMAIN AUTHORIZED_USERS :
            u \notin DOMAIN AUTHORIZED_USERS'
                => \E a \in Users, d \in BOOLEAN :
                      IsAdmin(a) /\ handle_user_id_input(a, Num(u), d)]_vars
    /\ [][\A u \in Users :
            (/\ ~IsAdmin(u)
             /\ \/ handle_generate_code(u)
                \/ handle_remove_user(u)
                \/ \E t \in Texts, d \in BOOLEAN : handle_user_id_input(u, t, d))
                => UNCHANGED <<ACCESS_CODES, AUTHORIZED_USERS, user_states>>]_vars

\* User 1 is the administrator; user 2 was authorized with the code, which is
\* used up, and has been removed again.
C25_Witness ==
    /\ ADMIN_USER_ID = Num(1)
    /\ uses[1] = {2} /\ 1 \notin DOMAIN ACCESS_CODES
    /\ 2 \notin DOMAIN AUTHORIZED_USERS

\* C26, as stated: the handling of the administrator's next free-text
\* message after Remove User or Broadcast clears the administrator's state in
\* every outcome.  Refuted: `del user_states[...]` comes after the reply to
\* the administrator (lines 523, 531, 542, 589); when that send fails, the
\* exception, which is no ValueError, ends the handler and the state stays.
C26_AsStated ==
    [][\A u \in Users :
          (/\ IsAdmin(u)
           /\ \/ \E t \in Texts, d \in BOOLEAN : handle_user_id_input(u, t, d)
              \/ \E d \in BOOLEAN : handle_broadcast_message(u, d))
              => u \notin DOMAIN user_states']_vars

\* The votes of the trend analysis alone (lines 221-229).
TrendVotes ==
    Trend(Trend([bull |-> 0, bear |-> 0], indicators_15m, 1), indicators_1h, 2)

\* C27: in every evaluation that reaches the scoring step the trend analysis
\* casts exactly 3 votes, the total of the bullish and bearish votes lies
\* between 3 and 8, and the confidence is the quotient by that total, never
\* the 0 of the zero-total branch.
C27_TotalVotes ==
    Scored =>
        /\ TrendVotes.bull + TrendVotes.bear = 3
        /\ bullish_signals.v + bearish_signals.v \in 3..8
        /\ confidence = [num |-> Abs(bullish_signals.v - bearish_signals.v) * 100,
                         den |-> bullish_signals.v + bearish_signals.v]

\* An evaluation in which every analysis voted: 8 votes in all.
C27_Witness == Scored /\ bullish_signals.v + bearish_signals.v = 8

\* C28, as stated: the scheduler's loop always has a next step, and when the
\* walk of a BUY or SELL cycle ends after a send has failed, the alert has
\* been sent, or its send attempted, to every other user who was authorized
\* when the cycle yielded the decision, also while handlers add users.
\* Refuted in its second part: a user authorized during the walk changes the
\* size of AUTHORIZED_USERS, the `for` of line 869 raises, and the users not
\* yet visited get no alert in this cycle.
C28_AsStated ==
    /\ [](ENABLED (AlertCycle \/ AlertEvaluate \/ AlertWalk))
    /\ [][(/\ alert.pc = "notifying" /\ alert'.pc = "waiting"
           /\ alert.visited # alert.sent)
              => alert.audience \subseteq alert.visited]_vars

\* The users recorded with is_admin True.
Admins == {u \in DOMAIN AUTHORIZED_USERS : AUTHORIZED_USERS[u].is_admin}

\* C21, as stated: the first user to issue an admin command becomes the
\* administrator and, once ADMIN_USER_ID is set, it never changes; no other
\* user is ever recorded with is_admin True, in any interleaving of the admin
\* commands.  Refuted: two workers both pass the test of line 374 while
\* ADMIN_USER_ID is None, and each then makes its own user the administrator
\* (lines 375-381).
C21_AsStated ==
    /\ [](\A u \in Admins : Num(u) = ADMIN_USER_ID)
    /\ [][ADMIN_USER_ID # None => ADMIN_USER_ID' = ADMIN_USER_ID]_vars

\* The answers that carry market data.
MarketData == {"trade_signal", "market_analysis", "price"}

\* C22, as stated: a Get Signal or Current Price request is answered with
\* market data only if the sender is the administrator or has an entry granted
\* less than 30 days earlier; every other sender gets the access-denied reply
\* and nothing is evaluated or fetched for them.  Refuted in its second half:
\* when the other worker adds an entry while cleanup_expired_users walks over
\* AUTHORIZED_USERS, the walk raises and the sender gets no reply at all.
C22_AsStated ==
    reply # None =>
        /\ reply.text \in MarketData => reply.entitled
        /\ ~reply.entitled => reply.text = "denied" /\ ~reply.fetched

\* C23: a message carrying entry, stop-loss and take-profit levels is sent
\* only for a BUY or SELL decision: the Get Signal handler answers with the
\* trade-signal message only when the decision is BUY or SELL, the scheduler
\* walks over the users only for BUY or SELL, and for ERROR, ANALYZING and
\* HOLD it has sent nothing.
C23_OnlyForBuyOrSell ==
    /\ (reply # None /\ reply.text = "trade_signal") => reply.signal \in {"BUY", "SELL"}
    /\ alert.pc = "notifying" => alert.signal \in {"BUY", "SELL"}
    /\ alert.signal \notin {"BUY", "SELL"} => alert.visited = {} /\ alert.sent = {}

\* The handler has answered a HOLD decision with the market analysis, and the
\* scheduler sleeps after an ERROR decision, a further user having been
\* authorized in the meantime.
C23_Witness ==
    /\ reply # None /\ reply.signal = "HOLD" /\ reply.text = "market_analysis"
    /\ alert.pc = "waiting" /\ alert.signal = "ERROR"
    /\ DOMAIN AUTHORIZED_USERS # Users

====
